---- MODULE Spec2Model ----
(***************************************************************************)
(* Model of the libostree cgo shims of beskar's ostree plugin:             *)
(*   glib_helpers.go.h  _g_error_get_message                               *)
(*   options.go.h       g_variant_builder_add_variant,                     *)
(*                      g_variant_builder_add_string_tuple                 *)
(*   pull.go.h          MakeRefArray, AppendRef, FreeRefArray,             *)
(*                      g_variant_builder_add_refs                         *)
(*                                                                         *)
(* Pointers are small integers.  C array index k is key k of the function  *)
(* refs (domain 0..N-1).  The three headers do not interact, so each has   *)
(* its own specification over the shared variables: SpecRefs, SpecOptions  *)
(* and SpecError.                                                          *)
(*                                                                         *)
(* The caller (Go code) is the environment.  It may break the contract in  *)
(* the ways the headers do not guard against: it may fill every slot, skip *)
(* slots, store the same pointer twice, store a pointer that is not heap   *)
(* owned, overwrite a slot, pass an index outside the array, and pass a    *)
(* null GError.  It allocates one array per behaviour and does not use it  *)
(* after FreeRefArray returned; calloc is taken to succeed.  GLib is taken *)
(* to accept the values the shims hand it (a builder of the matching       *)
(* element type, valid strings).                                           *)
(* Undefined behaviour is a choice between the outcomes a build can        *)
(* produce: the process dies (pc = "crashed") or goes on.                  *)
(***************************************************************************)
EXTENDS Integers, Sequences, FiniteSets, TLC

VARIABLES
    alloc,      \* "none" | "live" | "freed": the block MakeRefArray returned
    refs,       \* the block's slots, [0..N-1 -> pointer]
    reqSize,    \* the size argument MakeRefArray was called with
    dropped,    \* TRUE once AppendRef has overwritten a non-null slot
    oobWrites,  \* indices outside 0..N-1 that AppendRef wrote to
    pc,         \* "idle" | "loop" | "free_refs" | "crashed" | "aborted"
    i,          \* FreeRefArray's loop variable
    log,        \* memory events of FreeRefArray, in order
    builder,    \* the GVariantBuilder: the entries added so far
    calls,      \* number of builder helper calls made
    lastCall,   \* the arguments of the last builder helper call
    error,      \* the GError object the caller holds
    errArg,     \* the argument of the last _g_error_get_message call
    rets,       \* the values _g_error_get_message returned, in order
    msgReads    \* number of reads of error->message

vars == <<alloc, refs, reqSize, dropped, oobWrites, pc, i, log,
          builder, calls, lastCall, error, errArg, rets, msgReads>>

refVars == <<alloc, refs, reqSize, dropped, oobWrites, pc, i, log>>
bldVars == <<builder, calls, lastCall>>
errVars == <<error, errArg, rets, msgReads>>

---------------------------------------------------------------------------
(* Bounds of the model. *)
MaxSize == 3        \* largest size passed to MakeRefArray
MaxHeap == 2        \* number of heap-owned C strings the caller has
MaxOver == 1        \* words past the block a scan may find non-null
MaxEntries == 3     \* builder helper calls per behaviour
MaxCode == 2        \* largest GError code
MaxCalls == 3       \* _g_error_get_message calls per behaviour

\* The size of a char pointer on the 64-bit targets the plugin is built for.
SizeofCharPtr == 8

NULL == 0
HeapPtrs == 1..MaxHeap          \* results of C.CString: malloc'ed strings
StaticPtr == MaxHeap + 1        \* a string that did not come from malloc
Wild == MaxHeap + 2             \* a non-null word that is no string at all
CallerPtrs == {NULL} \cup HeapPtrs \cup {StaticPtr}
AnyWord == CallerPtrs \cup {Wild}

(* The bytes of the strings the caller's pointers point to. *)
RefNames == <<"main", "dev", "stable", "edge", "next", "beta">>
GarbageStr == "<garbage>"
Content(p) == IF p \in 1..(MaxHeap + 1) THEN RefNames[p] ELSE GarbageStr

---------------------------------------------------------------------------
(* pull.go.h: the ref array. *)

(* Faulty variant: the element size left out of the request. *)
CallocNoSizeof(nmemb, size) == [b \in 0..(size - 1) |-> 0]

(* calloc(nmemb, size): nmemb * size bytes, all zero. *)
Calloc(nmemb, size) == [b \in 0..(nmemb * size - 1) |-> 0]

(* The block seen as an array of char pointers: one slot per SizeofCharPtr *)
(* bytes; a slot whose bytes are all zero is the null pointer.             *)
AsCharPtrArray(bytes) ==
    LET n == Cardinality(DOMAIN bytes) \div SizeofCharPtr
    IN  [k \in 0..(n - 1) |->
            IF \A b \in 0..(SizeofCharPtr - 1) : bytes[k * SizeofCharPtr + b] = 0
            THEN NULL ELSE Wild]

MakeRefArray(size) ==
    /\ pc = "idle"
    /\ alloc = "none"
    /\ alloc' = "live"
    /\ refs' = AsCharPtrArray(Calloc(SizeofCharPtr, size))
    /\ reqSize' = size
    /\ UNCHANGED <<dropped, oobWrites, pc, i, log>>
    /\ UNCHANGED bldVars
    /\ UNCHANGED errVars

(* Faulty variant: the pointer a slot held is freed before it is replaced. *)
AppendRefFreeOld(index, ref) ==
    /\ pc = "idle"
    /\ alloc = "live"
    /\ \/ /\ index \in DOMAIN refs
          /\ refs' = [refs EXCEPT ![index] = ref]
          /\ dropped' = (dropped \/ refs[index] # NULL)
          /\ log' = IF refs[index] # NULL
                    THEN Append(log, <<"free", refs[index]>>) ELSE log
          /\ UNCHANGED <<oobWrites, pc>>
       \/ /\ index \notin DOMAIN refs
          /\ oobWrites' = oobWrites \cup {index}
          /\ pc' \in {"idle", "crashed"}
          /\ UNCHANGED <<refs, dropped, log>>
    /\ UNCHANGED <<alloc, reqSize, i>>
    /\ UNCHANGED bldVars
    /\ UNCHANGED errVars

(* refs[index] = ref, for an index inside the block. *)
StoreRef(arr, index, ref) == [arr EXCEPT ![index] = ref]

AppendRef(index, ref) ==
    /\ pc = "idle"
    /\ alloc = "live"
    /\ \/ /\ index \in DOMAIN refs
          /\ refs' = StoreRef(refs, index, ref)
          /\ dropped' = (dropped \/ refs[index] # NULL)
          /\ UNCHANGED <<oobWrites, pc>>
       \/ /\ index \notin DOMAIN refs      \* the store lands outside the block
          /\ oobWrites' = oobWrites \cup {index}
          /\ pc' \in {"idle", "crashed"}
          /\ UNCHANGED <<refs, dropped>>
    /\ UNCHANGED <<alloc, reqSize, i, log>>
    /\ UNCHANGED bldVars
    /\ UNCHANGED errVars

(* The pointers free() was called on so far, and whether the heap may be *)
(* damaged: a store outside the block, or a free() of something that is  *)
(* not a live malloc'ed block.                                            *)
FreedSeq == SelectSeq(log, LAMBDA e : e[1] = "free")
FreeCount(p) == Len(SelectSeq(log, LAMBDA e : e = <<"free", p>>))
ArrayFrees == Len(SelectSeq(log, LAMBDA e : e[1] = "freeArray"))
BadFreeIn(l) ==
    \E k \in DOMAIN l :
        /\ l[k][1] = "free"
        /\ \/ l[k][2] \notin HeapPtrs
           \/ \E j \in 1..(k - 1) : l[j] = l[k]
HeapDamaged == oobWrites # {} \/ BadFreeIn(log)

(* The value the load refs[idx] yields.  Inside the block it is the slot. *)
(* Outside it is whatever lies there; MaxOver caps how far the model      *)
(* lets non-null words go on.                                             *)
SlotValues(arr, idx) ==
    IF idx \in DOMAIN arr THEN {arr[idx]}
    ELSE IF idx < Cardinality(DOMAIN arr) + MaxOver THEN AnyWord
    ELSE {NULL}

(* Faulty variant: the scan starts at slot 1. *)
FreeRefArrayFromOne ==
    /\ pc = "idle"
    /\ alloc = "live"
    /\ pc' = "loop"
    /\ i' = 1
    /\ UNCHANGED <<alloc, refs, reqSize, dropped, oobWrites, log>>
    /\ UNCHANGED bldVars
    /\ UNCHANGED errVars

FreeRefArray ==
    /\ pc = "idle"
    /\ alloc = "live"
    /\ pc' = "loop"
    /\ i' = 0
    /\ UNCHANGED <<alloc, refs, reqSize, dropped, oobWrites, log>>
    /\ UNCHANGED bldVars
    /\ UNCHANGED errVars

(* Faulty variant: the scan stops at the end of the block (i < N). *)
FreeRefArrayLoopBounded ==
    /\ pc = "loop"
    /\ \/ /\ i \notin DOMAIN refs
          /\ log' = log
          /\ pc' = "free_refs"
          /\ i' = i
       \/ /\ i \in DOMAIN refs
          /\ refs[i] = NULL
          /\ log' = Append(log, <<"read", i>>)
          /\ pc' = "free_refs"
          /\ i' = i
       \/ /\ i \in DOMAIN refs
          /\ refs[i] # NULL
          /\ log' = Append(Append(log, <<"read", i>>), <<"free", refs[i]>>)
          /\ pc' = "loop"
          /\ i' = i + 1
    /\ UNCHANGED <<alloc, refs, reqSize, dropped, oobWrites>>
    /\ UNCHANGED bldVars
    /\ UNCHANGED errVars

(* Faulty variant: a null slot is skipped instead of ending the scan, *)
(* which runs to the end of the block.                                *)
FreeRefArrayLoopSkipNull ==
    /\ pc = "loop"
    /\ \/ /\ i \notin DOMAIN refs
          /\ log' = log
          /\ pc' = "free_refs"
          /\ i' = i
       \/ /\ i \in DOMAIN refs
          /\ log' = IF refs[i] = NULL
                    THEN Append(log, <<"read", i>>)
                    ELSE Append(Append(log, <<"read", i>>), <<"free", refs[i]>>)
          /\ pc' = "loop"
          /\ i' = i + 1
    /\ UNCHANGED <<alloc, refs, reqSize, dropped, oobWrites>>
    /\ UNCHANGED bldVars
    /\ UNCHANGED errVars

(* One evaluation of refs[i] != NULL and, when it holds, the body *)
(* free(refs[i]) and i++.                                          *)
FreeRefArrayLoop ==
    /\ pc = "loop"
    /\ \/ \E v \in SlotValues(refs, i) :
            LET rd == Append(log, <<"read", i>>)
                fr == Append(rd, <<"free", v>>)
            IN  \/ /\ v = NULL
                   /\ log' = rd
                   /\ pc' = "free_refs"
                   /\ i' = i
                \/ /\ v # NULL
                   /\ log' = fr
                   /\ pc' = "loop"
                   /\ i' = i + 1
                \/ /\ v # NULL
                   /\ (oobWrites # {} \/ BadFreeIn(fr))
                   /\ log' = fr
                   /\ pc' = "crashed"
                   /\ i' = i
       \/ /\ i \notin DOMAIN refs           \* the load itself faults
          /\ log' = Append(log, <<"read", i>>)
          /\ pc' = "crashed"
          /\ i' = i
    /\ UNCHANGED <<alloc, refs, reqSize, dropped, oobWrites>>
    /\ UNCHANGED bldVars
    /\ UNCHANGED errVars

(* free(refs) and return. *)
FreeRefArrayFree ==
    /\ pc = "free_refs"
    /\ log' = Append(log, <<"freeArray", 0>>)
    /\ \/ /\ pc' = "idle"
          /\ alloc' = "freed"
       \/ /\ HeapDamaged
          /\ pc' = "crashed"
          /\ alloc' = alloc
    /\ UNCHANGED <<refs, reqSize, dropped, oobWrites, i>>
    /\ UNCHANGED bldVars
    /\ UNCHANGED errVars

---------------------------------------------------------------------------
(* GLib's GVariant values, as far as the shims build them.  A value is its *)
(* type string, its payload (strings only) and its children (containers).  *)
(* g_variant_new_string and g_variant_new_strv copy the bytes they are     *)
(* given, so a value holds string contents, never the caller's pointers.   *)

NoVariant == [type |-> "", data |-> "", children |-> <<>>]

g_variant_new_string(s) == [type |-> "s", data |-> s, children |-> <<>>]

g_variant_new_variant(v) == [type |-> "v", data |-> "", children |-> <<v>>]

(* g_strv_length, which g_variant_new_strv runs for length -1: the index   *)
(* of the first null slot at or after k, or -1 when the scan leaves the    *)
(* block without finding one.                                              *)
RECURSIVE StrvScan(_, _)
StrvScan(arr, k) ==
    IF k \notin DOMAIN arr THEN -1
    ELSE IF arr[k] = NULL THEN k
    ELSE StrvScan(arr, k + 1)

g_variant_new_strv(strs) ==
    [type |-> "as", data |-> "",
     children |-> [k \in 1..Len(strs) |-> g_variant_new_string(strs[k])]]

(* g_variant_new with the two format strings the shims pass: "{s@v}" makes *)
(* a dictionary entry of a new string and the given variant, "(ss)" a      *)
(* tuple of two new strings.                                                *)
g_variant_new(format, a, b) ==
    CASE format = "{s@v}" ->
            [type |-> "{sv}", data |-> "",
             children |-> <<g_variant_new_string(a), b>>]
      [] format = "(ss)" ->
            [type |-> "(ss)", data |-> "",
             children |-> <<g_variant_new_string(a), g_variant_new_string(b)>>]

(* g_variant_builder_add: the new value becomes the builder's last child. *)
g_variant_builder_add(b, format, x, y) == Append(b, g_variant_new(format, x, y))

(* What a reader of the finished container gets back. *)
EntryKey(e) == e.children[1].data
EntryValue(e) == e.children[2]
g_variant_get_variant(v) == v.children[1]
g_variant_get_strv(v) == [k \in 1..Len(v.children) |-> v.children[k].data]
g_variant_get_string(v) == v.data

NoCall == [fn |-> "", key |-> "", str |-> "", var |-> NoVariant]

---------------------------------------------------------------------------
(* pull.go.h: g_variant_builder_add_refs. *)

(* Faulty variant: an explicit length one short of the terminator. *)
RefStringsShort(arr, n) == [k \in 1..(n - 1) |-> Content(arr[k - 1])]

(* The strings g_variant_new_strv copies out of a null-terminated array. *)
RefStrings(arr, n) == [k \in 1..n |-> Content(arr[k - 1])]

(* Without a null slot the scan runs past the block and takes the words  *)
(* it finds there for strings, up to the first null word: the array's own *)
(* strings, then a tail nobody chose.  GarbageStr stands for that tail,   *)
(* whatever its length.                                                    *)
OverrunStrings(arr) == Append(RefStrings(arr, Cardinality(DOMAIN arr)), GarbageStr)

(* Faulty variant: the helper takes the strings over and frees them once *)
(* they are copied into the variant.                                     *)
g_variant_builder_add_refs_owning ==
    /\ pc = "idle"
    /\ alloc = "live"
    /\ calls < MaxEntries
    /\ calls' = calls + 1
    /\ lastCall' = [NoCall EXCEPT !.fn = "add_refs"]
    /\ LET n == StrvScan(refs, 0)
       IN  /\ n >= 0
           /\ builder' = g_variant_builder_add(builder, "{s@v}", "refs",
                             g_variant_new_variant(
                                 g_variant_new_strv(RefStrings(refs, n))))
           /\ log' = log \o [k \in 1..n |-> <<"free", refs[k - 1]>>]
    /\ UNCHANGED <<alloc, refs, reqSize, dropped, oobWrites, pc, i>>
    /\ UNCHANGED errVars

g_variant_builder_add_refs ==
    /\ pc = "idle"
    /\ alloc = "live"
    /\ calls < MaxEntries
    /\ calls' = calls + 1
    /\ lastCall' = [NoCall EXCEPT !.fn = "add_refs"]
    /\ LET n == StrvScan(refs, 0)
       IN  \/ /\ n >= 0
              /\ builder' = g_variant_builder_add(builder, "{s@v}", "refs",
                                g_variant_new_variant(
                                    g_variant_new_strv(RefStrings(refs, n))))
              /\ pc' = pc
           \/ /\ n < 0
              /\ builder' = g_variant_builder_add(builder, "{s@v}", "refs",
                                g_variant_new_variant(
                                    g_variant_new_strv(OverrunStrings(refs))))
              /\ pc' = pc
           \/ /\ n < 0
              /\ builder' = builder
              /\ pc' = "crashed"
    /\ UNCHANGED <<alloc, refs, reqSize, dropped, oobWrites, i, log>>
    /\ UNCHANGED errVars

---------------------------------------------------------------------------
(* options.go.h *)

g_variant_builder_add_variant(key, value) ==
    /\ pc = "idle"
    /\ calls < MaxEntries
    /\ calls' = calls + 1
    /\ lastCall' = [NoCall EXCEPT !.fn = "add_variant", !.key = key, !.var = value]
    /\ builder' = g_variant_builder_add(builder, "{s@v}", key, value)
    /\ UNCHANGED refVars
    /\ UNCHANGED errVars

(* Faulty variant: key and value change places. *)
g_variant_builder_add_string_tuple_swapped(key, value) ==
    /\ pc = "idle"
    /\ calls < MaxEntries
    /\ calls' = calls + 1
    /\ lastCall' = [NoCall EXCEPT !.fn = "add_string_tuple", !.key = key, !.str = value]
    /\ builder' = g_variant_builder_add(builder, "(ss)", value, key)
    /\ UNCHANGED refVars
    /\ UNCHANGED errVars

g_variant_builder_add_string_tuple(key, value) ==
    /\ pc = "idle"
    /\ calls < MaxEntries
    /\ calls' = calls + 1
    /\ lastCall' = [NoCall EXCEPT !.fn = "add_string_tuple", !.key = key, !.str = value]
    /\ builder' = g_variant_builder_add(builder, "(ss)", key, value)
    /\ UNCHANGED refVars
    /\ UNCHANGED errVars

---------------------------------------------------------------------------
(* glib_helpers.go.h *)

ErrAddr == MaxHeap + 3          \* the address of the caller's GError
NoArg == ErrAddr + 1            \* errArg before the first call
NoError == [domain |-> 0, code |-> 0, message |-> NULL]

(* Faulty variant: the assertion compiled out. *)
g_assert_disabled(expr) == TRUE

(* g_assert (expr): the process aborts when expr is false. *)
g_assert(expr) == expr

(* Faulty variant: the accessor releases the error once it has read it. *)
_g_error_take_message(err) ==
    /\ pc = "idle"
    /\ Len(rets) < MaxCalls
    /\ errArg' = err
    /\ IF err # NULL
       THEN /\ rets' = Append(rets, error.message)
            /\ msgReads' = msgReads + 1
            /\ error' = NoError
            /\ pc' = pc
       ELSE /\ pc' = "aborted"
            /\ UNCHANGED <<rets, msgReads, error>>
    /\ UNCHANGED <<alloc, refs, reqSize, dropped, oobWrites, i, log>>
    /\ UNCHANGED bldVars

_g_error_get_message(err) ==
    /\ pc = "idle"
    /\ Len(rets) < MaxCalls
    /\ errArg' = err
    /\ IF g_assert(err # NULL)
       THEN /\ rets' = Append(rets, error.message)
            /\ msgReads' = msgReads + 1
            /\ pc' = pc
       ELSE /\ pc' = "aborted"
            /\ UNCHANGED <<rets, msgReads>>
    /\ UNCHANGED error
    /\ UNCHANGED <<alloc, refs, reqSize, dropped, oobWrites, i, log>>
    /\ UNCHANGED bldVars

---------------------------------------------------------------------------
(* The environments. *)

InitRefs ==
    /\ alloc = "none"
    /\ refs = <<>>
    /\ reqSize = 0
    /\ dropped = FALSE
    /\ oobWrites = {}
    /\ pc = "idle"
    /\ i = 0
    /\ log = <<>>
    /\ builder = <<>>
    /\ calls = 0
    /\ lastCall = NoCall
    /\ error = NoError
    /\ errArg = NoArg
    /\ rets = <<>>
    /\ msgReads = 0

(* The array helpers alone, with every misuse the caller can commit. *)
NextRefs ==
    \/ \E size \in 1..MaxSize : MakeRefArray(size)
    \/ \E index \in -1..MaxSize, ref \in CallerPtrs : AppendRef(index, ref)
    \/ FreeRefArray
    \/ FreeRefArrayLoop
    \/ FreeRefArrayFree

SpecRefs == InitRefs /\ [][NextRefs]_vars

(* The array's life around a pull: allocate, populate, hand the array to *)
(* the builder any number of times, free.  The builder may already hold  *)
(* an option.  Stores are in range here and all come before the first    *)
(* g_variant_builder_add_refs call; SpecRefs has the out-of-range stores. *)
OptionKeys == {"depth", "flags"}
OptionValues == { g_variant_new_variant(g_variant_new_string("1")),
                  g_variant_new_variant(g_variant_new_strv(<<"main", "dev">>)) }
TupleStrings == {"main", "dev"}

InitPull ==
    /\ alloc = "none"
    /\ refs = <<>>
    /\ reqSize = 0
    /\ dropped = FALSE
    /\ oobWrites = {}
    /\ pc = "idle"
    /\ i = 0
    /\ log = <<>>
    /\ builder \in { <<>>,
                     <<g_variant_new("{s@v}", "depth",
                          g_variant_new_variant(g_variant_new_string("1")))>> }
    /\ calls = 0
    /\ lastCall = NoCall
    /\ error = NoError
    /\ errArg = NoArg
    /\ rets = <<>>
    /\ msgReads = 0

NextPull ==
    \/ \E size \in 1..MaxSize : MakeRefArray(size)
    \/ /\ calls = 0
       /\ \E index \in DOMAIN refs, ref \in CallerPtrs : AppendRef(index, ref)
    \/ g_variant_builder_add_refs
    \/ FreeRefArray
    \/ FreeRefArrayLoop
    \/ FreeRefArrayFree

SpecPull == InitPull /\ [][NextPull]_vars

NextOptions ==
    \/ \E key \in OptionKeys, value \in OptionValues :
            g_variant_builder_add_variant(key, value)
    \/ \E key \in OptionKeys, value \in TupleStrings :
            g_variant_builder_add_string_tuple(key, value)

SpecOptions == InitRefs /\ [][NextOptions]_vars

InitError ==
    /\ alloc = "none"
    /\ refs = <<>>
    /\ reqSize = 0
    /\ dropped = FALSE
    /\ oobWrites = {}
    /\ pc = "idle"
    /\ i = 0
    /\ log = <<>>
    /\ builder = <<>>
    /\ calls = 0
    /\ lastCall = NoCall
    /\ error \in [domain : 1..2, code : 0..MaxCode, message : CallerPtrs]
    /\ errArg = NoArg
    /\ rets = <<>>
    /\ msgReads = 0

NextError == \E err \in {NULL, ErrAddr} : _g_error_get_message(err)

SpecError == InitError /\ [][NextError]_vars
---------------------------------------------------------------------------
(* Vocabulary of the properties. *)

ArrLen == Cardinality(DOMAIN refs)
HasNull == \E k \in DOMAIN refs : refs[k] = NULL
Full == alloc # "none" /\ ~HasNull
FirstNull ==
    IF HasNull
    THEN CHOOSE k \in DOMAIN refs :
            refs[k] = NULL /\ \A j \in DOMAIN refs : j < k => refs[j] # NULL
    ELSE ArrLen
PrefixPtrs == { refs[k] : k \in 0..(FirstNull - 1) }
(* K distinct heap-owned pointers in slots 0..K-1, null from slot K on. *)
Packed ==
    /\ HasNull
    /\ \A k \in DOMAIN refs : k < FirstNull => refs[k] \in HeapPtrs
    /\ \A j, k \in DOMAIN refs : j < k /\ k < FirstNull => refs[j] # refs[k]
    /\ \A k \in DOMAIN refs : k > FirstNull => refs[k] = NULL
Returned == pc = "idle" /\ alloc = "freed"
ReadIdx == { log[k][2] : k \in { j \in DOMAIN log : log[j][1] = "read" } }
IsPrefix(a, b) == Len(a) <= Len(b) /\ SubSeq(b, 1, Len(a)) = a
LastEntry(b) == b[Len(b)]

---------------------------------------------------------------------------
(* Properties. *)

\* C1: an array of size N holding K <= N-1 distinct heap-owned pointers in
\* slots 0..K-1 and null in slots K..N-1, written with in-range indices only:
\* FreeRefArray never dies and reads no slot with index >= N, and when it
\* has returned it has freed each of the K pointers exactly once, no other
\* pointer, and then the array, exactly once, as its last act.  K = 0 frees
\* the array alone.
C1_FreeExactlyPopulated ==
    (Packed /\ oobWrites = {}) =>
        /\ pc # "crashed"
        /\ \A idx \in ReadIdx : idx < ArrLen
        /\ Returned =>
            /\ \A p \in AnyWord \ {NULL} :
                   FreeCount(p) = IF p \in PrefixPtrs THEN 1 ELSE 0
            /\ ArrayFrees = 1
            /\ LastEntry(log) = <<"freeArray", 0>>

C1_Witness ==
    /\ Returned /\ Packed /\ oobWrites = {}
    /\ ArrLen = 3 /\ FirstNull = 2
    /\ Len(FreedSeq) = 2 /\ ArrayFrees = 1

\* C2: the step MakeRefArray(size) yields an array of exactly size slots,
\* all of them null, for every size >= 1.
C2_ZeroInitialized ==
    [][(alloc = "none" /\ alloc' = "live") =>
            /\ reqSize' >= 1
            /\ DOMAIN refs' = 0..(reqSize' - 1)
            /\ \A k \in DOMAIN refs' : refs'[k] = NULL]_vars

C2_Witness ==
    /\ alloc = "live" /\ reqSize = 3 /\ ArrLen = 3
    /\ \A k \in DOMAIN refs : refs[k] = NULL
    /\ ~dropped /\ oobWrites = {}

\* C3: on an array with a null slot, first at index t, a
\* g_variant_builder_add_refs call appends exactly one entry; the entry is a
\* dictionary entry whose key is "refs" and whose value is a variant that
\* unwraps to the string array of the strings of refs[0..t-1], in order; the
\* entries the builder already held are unchanged.
C3_AddRefsEntry ==
    [][(calls' = calls + 1 /\ lastCall'.fn = "add_refs" /\ HasNull) =>
            /\ Len(builder') = Len(builder) + 1
            /\ SubSeq(builder', 1, Len(builder)) = builder
            /\ LET e == LastEntry(builder')
                   v == EntryValue(e)
               IN  /\ e.type = "{sv}"
                   /\ EntryKey(e) = "refs"
                   /\ v.type = "v"
                   /\ g_variant_get_variant(v).type = "as"
                   /\ g_variant_get_strv(g_variant_get_variant(v))
                        = [k \in 1..FirstNull |-> Content(refs[k - 1])]]_vars

C3_Witness ==
    /\ pc = "idle" /\ alloc = "live" /\ lastCall.fn = "add_refs"
    /\ ArrLen = 3 /\ FirstNull = 2 /\ refs[0] = 2 /\ refs[1] = 1
    /\ Len(builder) = 2
    /\ EntryKey(builder[1]) = "depth"
    /\ EntryKey(builder[2]) = "refs"
    /\ g_variant_get_strv(g_variant_get_variant(EntryValue(builder[2])))
            = <<"dev", "main">>

\* C4: a g_variant_builder_add_variant call appends exactly one entry, the
\* dictionary entry of format "{s@v}" that reads back as the key and the
\* variant passed; a g_variant_builder_add_string_tuple call appends exactly
\* one entry, the tuple of format "(ss)" that reads back as the key and the
\* string passed; the entries already in the builder keep their values and
\* their order.
C4_OptionEntries ==
    [][(calls' = calls + 1) =>
            /\ Len(builder') = Len(builder) + 1
            /\ SubSeq(builder', 1, Len(builder)) = builder
            /\ LET e == LastEntry(builder')
                   c == lastCall'
               IN  /\ c.fn \in {"add_variant", "add_string_tuple"}
                   /\ c.fn = "add_variant" =>
                        /\ e.type = "{sv}"
                        /\ EntryKey(e) = c.key
                        /\ EntryValue(e) = c.var
                   /\ c.fn = "add_string_tuple" =>
                        /\ e.type = "(ss)"
                        /\ Len(e.children) = 2
                        /\ g_variant_get_string(e.children[1]) = c.key
                        /\ g_variant_get_string(e.children[2]) = c.str]_vars

C4_Witness ==
    /\ Len(builder) = 2
    /\ builder[1].type = "{sv}" /\ EntryKey(builder[1]) = "flags"
    /\ g_variant_get_strv(g_variant_get_variant(EntryValue(builder[1])))
            = <<"main", "dev">>
    /\ builder[2].type = "(ss)"
    /\ g_variant_get_string(builder[2].children[1]) = "depth"
    /\ g_variant_get_string(builder[2].children[2]) = "dev"

\* C5: a _g_error_get_message call on the caller's (non-null) GError returns
\* exactly the message pointer stored in it and leaves the object as it was:
\* no field changes, no memory is freed, the process goes on; every call
\* returns the same pointer.
C5_ReturnsStoredMessage ==
    [][(errArg' = ErrAddr) =>
            /\ rets' = Append(rets, error.message)
            /\ \A k \in DOMAIN rets' : rets'[k] = error'.message
            /\ error' = error
            /\ log' = log
            /\ pc' = "idle"]_vars

C5_Witness ==
    /\ pc = "idle" /\ errArg = ErrAddr
    /\ Len(rets) = 2 /\ rets[1] = rets[2] /\ rets[2] = error.message
    /\ error.message = 2 /\ error.code = 1

\* C6: a _g_error_get_message call with a null argument ends in the fatal
\* assertion: the process is aborted, nothing is returned to the caller
\* (neither null nor anything else), the message field is not read, and no
\* step follows the abort.
C6_NullIsFatal ==
    [][/\ pc # "aborted"
       /\ (errArg' = NULL) =>
            /\ pc' = "aborted"
            /\ rets' = rets
            /\ msgReads' = msgReads]_vars

C6_Witness ==
    /\ pc = "aborted" /\ errArg = NULL
    /\ Len(rets) = 1 /\ msgReads = 1

\* C7: with every slot of the array non-null, FreeRefArray does not get to
\* free(refs) without having read slot N, one past the last slot of the
\* block; when the N pointers are distinct heap-owned pointers and no store
\* went outside the block, it cannot die before that read either.  Nothing
\* ties the scan to N, so it may go on to slot N+1.
C7_FullArrayReadsPastEnd ==
    /\ (Full /\ (pc = "free_refs" \/ Returned \/ (pc = "loop" /\ i > ArrLen))) =>
            ArrLen \in ReadIdx
    /\ (Full /\ pc = "crashed" /\ oobWrites = {}
            /\ (\A k \in DOMAIN refs : refs[k] \in HeapPtrs)
            /\ (\A j, k \in DOMAIN refs : j # k => refs[j] # refs[k])) =>
            ArrLen \in ReadIdx

C7_Witness ==
    /\ Full /\ ArrLen = 2 /\ oobWrites = {}
    /\ refs[0] = 1 /\ refs[1] = 2
    /\ Returned
    /\ ArrLen \in ReadIdx /\ (ArrLen + 1) \in ReadIdx

\* C8: FreeRefArray reads the slots in order from index 0 and, after each
\* read but the last, frees the non-null pointer that slot holds; free(refs)
\* comes only right after the last read and nothing is freed after it.  On
\* an array whose first null slot is t it therefore reads slots 0..t only
\* and frees refs[0], ..., refs[t-1] in that order and nothing else, all of
\* them once it has returned, followed by one free of the array; a pointer
\* stored above slot t is neither read nor freed.
C8_FreesMaximalPrefix ==
    /\ \A j \in DOMAIN log :
            IF j % 2 = 1
            THEN log[j] = <<"read", (j - 1) \div 2>>
            ELSE \/ /\ log[j][1] = "free"
                    /\ log[j][2] # NULL
                    /\ ((j \div 2) - 1) \in DOMAIN refs =>
                            log[j][2] = refs[(j \div 2) - 1]
                 \/ /\ log[j] = <<"freeArray", 0>>
                    /\ j = Len(log)
    /\ HasNull =>
        LET prefix == [k \in 1..FirstNull |-> <<"free", refs[k - 1]>>]
        IN  /\ \A idx \in ReadIdx : idx <= FirstNull
            /\ IsPrefix(FreedSeq, prefix)
            /\ Returned => (FreedSeq = prefix /\ ArrayFrees = 1
                                /\ LastEntry(log) = <<"freeArray", 0>>)

C8_Witness ==
    /\ Returned /\ ArrLen = 3 /\ FirstNull = 1
    /\ refs[0] = 1 /\ refs[2] = 2
    /\ FreeCount(1) = 1 /\ FreeCount(2) = 0
    /\ 2 \notin ReadIdx

\* C9: a call AppendRef(refs, index, ref) frees nothing.  With index in
\* 0..N-1 it leaves slot index holding ref and every other slot as it was,
\* whatever the slot held before.  With index outside 0..N-1 it is not
\* rejected: the store is made, outside the block, and no slot of the block
\* changes.
C9_AppendRefStoresOneSlot ==
    [][\A index \in -1..MaxSize, ref \in CallerPtrs :
            AppendRef(index, ref) =>
                /\ log' = log
                /\ alloc' = alloc
                /\ DOMAIN refs' = DOMAIN refs
                /\ index \in DOMAIN refs =>
                        /\ refs'[index] = ref
                        /\ \A k \in DOMAIN refs \ {index} : refs'[k] = refs[k]
                        /\ oobWrites' = oobWrites
                /\ index \notin DOMAIN refs =>
                        /\ index \in oobWrites'
                        /\ refs' = refs]_vars

C9_Witness ==
    /\ pc = "idle" /\ alloc = "live" /\ ArrLen = 2
    /\ dropped /\ refs[0] = 2 /\ refs[1] = NULL
    /\ oobWrites = {2}
    /\ log = <<>>

\* C10: g_variant_builder_add_refs takes no ownership: a call leaves the
\* array, its slots and the allocation as they were and frees nothing.  No
\* step of FreeRefArray changes an entry the builder holds.  When
\* FreeRefArray has returned on an array of K distinct heap-owned pointers
\* followed by nulls, no slot of which was ever overwritten, each of the K
\* strings has been freed exactly once, no other string has been freed, and
\* the array has been freed exactly once, however many
\* g_variant_builder_add_refs calls were made before.
C10_AddRefsBorrows ==
    [][/\ (calls' = calls + 1) =>
            (refs' = refs /\ alloc' = alloc /\ log' = log /\ dropped' = dropped)
       /\ (pc \in {"loop", "free_refs"}) => builder' = builder
       /\ (Returned /\ Packed /\ ~dropped)' =>
            /\ \A p \in AnyWord \ {NULL} :
                   FreeCount(p)' = IF p \in PrefixPtrs' THEN 1 ELSE 0
            /\ ArrayFrees' = 1]_vars

C10_Witness ==
    /\ Returned /\ Packed /\ ~dropped
    /\ ArrLen = 3 /\ FirstNull = 2
    /\ calls = 2 /\ Len(builder) = 3
    /\ EntryKey(builder[2]) = "refs" /\ EntryKey(builder[3]) = "refs"
    /\ FreeCount(refs[0]) = 1 /\ FreeCount(refs[1]) = 1
====
